---- MODULE Spec2Model ----
(***************************************************************************)
(* A model of the OPL2 (YM3812) register library, src/src/OPL2.cpp.        *)
(*                                                                         *)
(* The state is the 256 byte shadow register file oplRegisters, the        *)
(* register file of the chip as the bus writes leave it, and the bus       *)
(* traffic of the operation that ran last.  Every public operation of the  *)
(* class is one action; the calls it makes (setRegister, write, the        *)
(* getters it reads through) are operators over a context record           *)
(*     [regs, chip, bus, ret]                                              *)
(* threaded through the handler in program order.                          *)
(***************************************************************************)
EXTENDS Integers, Sequences, FiniteSets, TLC

VARIABLES
    oplRegisters,   \* byte oplRegisters[256], the shadow register file
    chip,           \* what the chip holds: last data byte transmitted per address, -1 if none
    bus,            \* the bus events of the operation that ran last, in order
    ret,            \* the value the operation that ran last returned
    lastOp,         \* the operation that ran last: its name, arguments and instrument
    resetDone,      \* reset() has run since construction
    nOps            \* operations since the last reset()

vars == <<oplRegisters, chip, bus, ret, lastOp, resetDone, nOps>>

(***************************************************************************)
(* Bounds of the model.                                                    *)
(***************************************************************************)
\* Operations explored after a reset().
MaxOps == 2

Byte == 0..255
Address == 0..255

(***************************************************************************)
(* C integer arithmetic on the bytes of the register file.                 *)
(***************************************************************************)
RECURSIVE BitAnd(_, _)
BitAnd(a, b) ==
    IF a = 0 \/ b = 0 THEN 0
    ELSE (a % 2) * (b % 2) + 2 * BitAnd(a \div 2, b \div 2)

RECURSIVE BitOr(_, _)
BitOr(a, b) ==
    IF a = 0 THEN b
    ELSE IF b = 0 THEN a
    ELSE (IF a % 2 = 1 \/ b % 2 = 1 THEN 1 ELSE 0) + 2 * BitOr(a \div 2, b \div 2)

\* ~x on an int (16 bits wide on the AVR targets); only the low byte survives
\* the conversion back to byte.
BitNot(x) == 65535 - x

\* Conversion of an int to byte.
ToByte(x) == x % 256

\* min and max as the code uses them on bytes.
min(a, b) == IF a < b THEN a ELSE b
max(a, b) == IF a > b THEN a ELSE b

(***************************************************************************)
(* Constants and tables of OPL2.h.                                         *)
(***************************************************************************)
ZERO == 0
ONE == 1
CHANNEL_MAX == 8
OCTAVE_MAX == 7
NOTE_MAX == 11
DRUM_SOUND_MAX == 5
INSTRUMENT_TYPE_MELODIC == 0
INSTRUMENT_TYPE_BASS == 6
OPERATOR1 == 0
OPERATOR2 == 1

\* registerOffsets[operatorNum][channel]
registerOffsets ==
    [o \in 0..1 |->
        IF o = 0
        THEN [c \in 0..8 |-> <<\h00, \h01, \h02, \h08, \h09, \h0A, \h10, \h11, \h12>>[c + 1]]
        ELSE [c \in 0..8 |-> <<\h03, \h04, \h05, \h0B, \h0C, \h0D, \h13, \h14, \h15>>[c + 1]]]

\* drumRegisterOffsets[operatorNum][drum]; 0xFF: the drum does not use the slot
drumRegisterOffsets ==
    [o \in 0..1 |->
        IF o = 0
        THEN [d \in 0..4 |-> <<\h10, \hFF, \h12, \hFF, \h11>>[d + 1]]
        ELSE [d \in 0..4 |-> <<\h13, \h14, \hFF, \h15, \hFF>>[d + 1]]]

\* drumChannels[drum]: bass 6, snare 7, tom 8, cymbal 8, hi-hat 7
drumChannels == [d \in 0..4 |-> <<6, 7, 8, 8, 7>>[d + 1]]

\* drumBits[drum]: the trigger bit of each drum in register 0xBD
drumBits == [d \in 0..4 |-> <<\h10, \h08, \h04, \h02, \h01>>[d + 1]]

\* noteFNumbers[note]
noteFNumbers ==
    [n \in 0..11 |->
        <<\h156, \h16B, \h181, \h198, \h1B0, \h1CA,
          \h1E5, \h202, \h220, \h241, \h263, \h287>>[n + 1]]

(***************************************************************************)
(* The context a handler runs in.                                          *)
(***************************************************************************)
Cur == [regs |-> oplRegisters, chip |-> chip, bus |-> <<>>, ret |-> 0]

WriteEvent(reg, data) == [kind |-> "write", reg |-> reg, data |-> data]
ResetPulse == [kind |-> "reset", reg |-> -1, data |-> -1]

\* OPL2::write(byte reg, byte data): the address byte, then the data byte.
write(st, reg, data) ==
    [st EXCEPT !.chip[ToByte(reg)] = ToByte(data),
               !.bus = Append(@, WriteEvent(ToByte(reg), ToByte(data)))]

\* OPL2::getRegister
getRegister(st, reg) == st.regs[reg]

\* OPL2::setRegister(byte reg, byte value)
setRegister(st, reg, value) ==
    [write([st EXCEPT !.regs[ToByte(reg)] = ToByte(value)], reg, value)
        EXCEPT !.ret = ToByte(reg)]

\* A getRegisterOffset that wraps its indices where the code clamps them.
getRegisterOffsetWraps(channel, operatorNum) ==
    registerOffsets[operatorNum % (ONE + 1)][channel % (CHANNEL_MAX + 1)]

\* OPL2::getRegisterOffset
getRegisterOffset(channel, operatorNum) ==
    registerOffsets[max(ZERO, min(operatorNum, ONE))][max(ZERO, min(channel, CHANNEL_MAX))]

(***************************************************************************)
(* Global flags and per operator fields: getters read the shadow file,     *)
(* setters read-modify-write one register through setRegister.             *)
(***************************************************************************)
\* A C byte used as a condition or converted to bool.
NonZero(x) == x # 0

getWaveFormSelect(st) == NonZero(BitAnd(st.regs[\h01], \h20))

setWaveFormSelect(st, enable) ==
    IF enable
    THEN setRegister(st, \h01, BitOr(st.regs[\h01], \h20))
    ELSE setRegister(st, \h01, BitAnd(st.regs[\h01], \hDF))

getTremolo(st, channel, operatorNum) ==
    NonZero(BitAnd(st.regs[\h20 + getRegisterOffset(channel, operatorNum)], \h80))

setTremolo(st, channel, operatorNum, enable) ==
    LET reg == \h20 + getRegisterOffset(channel, operatorNum)
    IN  IF enable
        THEN setRegister(st, reg, BitOr(st.regs[reg], \h80))
        ELSE setRegister(st, reg, BitAnd(st.regs[reg], \h7F))

getVibrato(st, channel, operatorNum) ==
    NonZero(BitAnd(st.regs[\h20 + getRegisterOffset(channel, operatorNum)], \h40))

setVibrato(st, channel, operatorNum, enable) ==
    LET reg == \h20 + getRegisterOffset(channel, operatorNum)
    IN  IF enable
        THEN setRegister(st, reg, BitOr(st.regs[reg], \h40))
        ELSE setRegister(st, reg, BitAnd(st.regs[reg], \hBF))

getMaintainSustain(st, channel, operatorNum) ==
    NonZero(BitAnd(st.regs[\h20 + getRegisterOffset(channel, operatorNum)], \h20))

setMaintainSustain(st, channel, operatorNum, enable) ==
    LET reg == \h20 + getRegisterOffset(channel, operatorNum)
    IN  IF enable
        THEN setRegister(st, reg, BitOr(st.regs[reg], \h20))
        ELSE setRegister(st, reg, BitAnd(st.regs[reg], \hDF))

getEnvelopeScaling(st, channel, operatorNum) ==
    NonZero(BitAnd(st.regs[\h20 + getRegisterOffset(channel, operatorNum)], \h10))

setEnvelopeScaling(st, channel, operatorNum, enable) ==
    LET reg == \h20 + getRegisterOffset(channel, operatorNum)
    IN  IF enable
        THEN setRegister(st, reg, BitOr(st.regs[reg], \h10))
        ELSE setRegister(st, reg, BitAnd(st.regs[reg], \hEF))

getMultiplier(st, channel, operatorNum) ==
    BitAnd(st.regs[\h20 + getRegisterOffset(channel, operatorNum)], \h0F)

setMultiplier(st, channel, operatorNum, multiplier) ==
    LET reg == \h20 + getRegisterOffset(channel, operatorNum)
    IN  setRegister(st, reg, BitOr(BitAnd(st.regs[reg], \hF0), BitAnd(multiplier, \h0F)))

getScalingLevel(st, channel, operatorNum) ==
    BitAnd(st.regs[\h40 + getRegisterOffset(channel, operatorNum)], \hC0) \div 64

setScalingLevel(st, channel, operatorNum, scaling) ==
    LET reg == \h40 + getRegisterOffset(channel, operatorNum)
    IN  setRegister(st, reg, BitOr(BitAnd(st.regs[reg], \h3F), BitAnd(scaling, \h03) * 64))

getVolume(st, channel, operatorNum) ==
    BitAnd(st.regs[\h40 + getRegisterOffset(channel, operatorNum)], \h3F)

\* A setVolume that writes the level without reading the register back.
setVolumeOverwrite(st, channel, operatorNum, volume) ==
    LET reg == \h40 + getRegisterOffset(channel, operatorNum)
    IN  setRegister(st, reg, BitAnd(volume, \h3F))

setVolume(st, channel, operatorNum, volume) ==
    LET reg == \h40 + getRegisterOffset(channel, operatorNum)
    IN  setRegister(st, reg, BitOr(BitAnd(st.regs[reg], \hC0), BitAnd(volume, \h3F)))

getAttack(st, channel, operatorNum) ==
    BitAnd(st.regs[\h60 + getRegisterOffset(channel, operatorNum)], \hF0) \div 16

setAttack(st, channel, operatorNum, attack) ==
    LET reg == \h60 + getRegisterOffset(channel, operatorNum)
    IN  setRegister(st, reg, BitOr(BitAnd(st.regs[reg], \h0F), BitAnd(attack, \h0F) * 16))

getDecay(st, channel, operatorNum) ==
    BitAnd(st.regs[\h60 + getRegisterOffset(channel, operatorNum)], \h0F)

setDecay(st, channel, operatorNum, decay) ==
    LET reg == \h60 + getRegisterOffset(channel, operatorNum)
    IN  setRegister(st, reg, BitOr(BitAnd(st.regs[reg], \hF0), BitAnd(decay, \h0F)))

getSustain(st, channel, operatorNum) ==
    BitAnd(st.regs[\h80 + getRegisterOffset(channel, operatorNum)], \hF0) \div 16

\* A setSustain that packs the level into the low nibble, as setRelease does.
setSustainLowNibble(st, channel, operatorNum, sustain) ==
    LET reg == \h80 + getRegisterOffset(channel, operatorNum)
    IN  setRegister(st, reg, BitOr(BitAnd(st.regs[reg], \hF0), BitAnd(sustain, \h0F)))

setSustain(st, channel, operatorNum, sustain) ==
    LET reg == \h80 + getRegisterOffset(channel, operatorNum)
    IN  setRegister(st, reg, BitOr(BitAnd(st.regs[reg], \h0F), BitAnd(sustain, \h0F) * 16))

getRelease(st, channel, operatorNum) ==
    BitAnd(st.regs[\h80 + getRegisterOffset(channel, operatorNum)], \h0F)

setRelease(st, channel, operatorNum, release) ==
    LET reg == \h80 + getRegisterOffset(channel, operatorNum)
    IN  setRegister(st, reg, BitOr(BitAnd(st.regs[reg], \hF0), BitAnd(release, \h0F)))

getWaveForm(st, channel, operatorNum) ==
    BitAnd(st.regs[\hE0 + getRegisterOffset(channel, operatorNum)], \h03)

setWaveForm(st, channel, operatorNum, waveForm) ==
    LET reg == \hE0 + getRegisterOffset(channel, operatorNum)
    IN  setRegister(st, reg, BitOr(BitAnd(st.regs[reg], \hFC), BitAnd(waveForm, \h03)))

(***************************************************************************)
(* Per channel fields.                                                     *)
(***************************************************************************)
getFNumber(st, channel) ==
    LET offset == max(ZERO, min(channel, CHANNEL_MAX))
    IN  BitAnd(st.regs[\hB0 + offset], \h03) * 256 + st.regs[\hA0 + offset]

\* fNumber is a short; the model passes it as a non-negative int.
setFNumber(st, channel, fNumber) ==
    LET reg == \hA0 + max(ZERO, min(channel, CHANNEL_MAX))
        s1  == setRegister(st, reg, BitAnd(fNumber, \h00FF))
        s2  == setRegister(s1, reg + \h10,
                   BitOr(BitAnd(s1.regs[reg + \h10], \hFC), BitAnd(fNumber, \h0300) \div 256))
    IN  [s2 EXCEPT !.ret = reg]

getBlock(st, channel) ==
    LET offset == max(ZERO, min(channel, CHANNEL_MAX))
    IN  BitAnd(st.regs[\hB0 + offset], \h1C) \div 4

setBlock(st, channel, block) ==
    LET reg == \hB0 + max(ZERO, min(channel, CHANNEL_MAX))
    IN  setRegister(st, reg, BitOr(BitAnd(st.regs[reg], \hE3), BitAnd(block, \h07) * 4))

getKeyOn(st, channel) ==
    LET offset == max(ZERO, min(channel, CHANNEL_MAX))
    IN  NonZero(BitAnd(st.regs[\hB0 + offset], \h20))

setKeyOn(st, channel, keyOn) ==
    LET reg == \hB0 + max(ZERO, min(channel, CHANNEL_MAX))
    IN  IF keyOn
        THEN setRegister(st, reg, BitOr(st.regs[reg], \h20))
        ELSE setRegister(st, reg, BitAnd(st.regs[reg], \hDF))

getFeedback(st, channel) ==
    LET offset == max(ZERO, min(channel, CHANNEL_MAX))
    IN  BitAnd(st.regs[\hC0 + offset], \hE0) \div 2

setFeedback(st, channel, feedback) ==
    LET reg == \hC0 + max(ZERO, min(channel, CHANNEL_MAX))
    IN  setRegister(st, reg, BitOr(BitAnd(st.regs[reg], \h01), BitAnd(feedback, \h07) * 2))

getSynthMode(st, channel) ==
    LET offset == max(ZERO, min(channel, CHANNEL_MAX))
    IN  NonZero(BitAnd(st.regs[\hC0 + offset], \h01))

setSynthMode(st, channel, isAdditive) ==
    LET reg == \hC0 + max(ZERO, min(channel, CHANNEL_MAX))
    IN  IF isAdditive
        THEN setRegister(st, reg, BitOr(st.regs[reg], \h01))
        ELSE setRegister(st, reg, BitAnd(st.regs[reg], \hFE))

(***************************************************************************)
(* Register 0xBD: depth flags, percussion mode and the drum triggers.      *)
(***************************************************************************)
getDeepTremolo(st) == NonZero(BitAnd(st.regs[\hBD], \h80))

setDeepTremolo(st, enable) ==
    IF enable
    THEN setRegister(st, \hBD, BitOr(st.regs[\hBD], \h80))
    ELSE setRegister(st, \hBD, BitAnd(st.regs[\hBD], \h7F))

getDeepVibrato(st) == NonZero(BitAnd(st.regs[\hBD], \h40))

setDeepVibrato(st, enable) ==
    IF enable
    THEN setRegister(st, \hBD, BitOr(st.regs[\hBD], \h40))
    ELSE setRegister(st, \hBD, BitAnd(st.regs[\hBD], \hBF))

getPercussion(st) == NonZero(BitAnd(st.regs[\hBD], \h20))

setPercussion(st, enable) ==
    IF enable
    THEN setRegister(st, \hBD, BitOr(st.regs[\hBD], \h20))
    ELSE setRegister(st, \hBD, BitAnd(st.regs[\hBD], \hDF))

getDrums(st) == BitAnd(st.regs[\hBD], \h1F)

\* setDrums(byte drums); the argument is converted to byte at the call.
setDrums(st, drums) ==
    setRegister(st, \hBD, BitOr(BitAnd(st.regs[\hBD], \hE0), BitAnd(ToByte(drums), \h1F)))

\* setDrums(bool bass, bool snare, bool tom, bool cymbal, bool hihat)
setDrumsFlags(st, bass, snare, tom, cymbal, hihat) ==
    LET drums == (IF bass THEN \h10 ELSE \h00) + (IF snare THEN \h08 ELSE \h00)
                 + (IF tom THEN \h04 ELSE \h00) + (IF cymbal THEN \h02 ELSE \h00)
                 + (IF hihat THEN \h01 ELSE \h00)
        s1 == setRegister(st, \hBD, BitAnd(st.regs[\hBD], BitNot(drums)))
    IN  setRegister(s1, \hBD, BitOr(s1.regs[\hBD], drums))

(***************************************************************************)
(* Instruments.                                                            *)
(***************************************************************************)
Operator(t, v, s, e, m, k, l, a, d, su, r, w) ==
    [hasTremolo |-> t, hasVibrato |-> v, hasSustain |-> s, hasEnvelopeScaling |-> e,
     frequencyMultiplier |-> m, keyScaleLevel |-> k, outputLevel |-> l,
     attack |-> a, decay |-> d, sustain |-> su, release |-> r, waveForm |-> w]

Instrument(op1, op2, feedback, isAdditiveSynth, type) ==
    [operators |-> [o \in 0..1 |-> IF o = OPERATOR1 THEN op1 ELSE op2],
     feedback |-> feedback, isAdditiveSynth |-> isAdditiveSynth, type |-> type]

\* OPL2::createInstrument
createInstrument ==
    Instrument(Operator(FALSE, FALSE, FALSE, FALSE, 0, 0, 0, 0, 0, 0, 0, 0),
               Operator(FALSE, FALSE, FALSE, FALSE, 0, 0, 0, 0, 0, 0, 0, 0),
               0, FALSE, INSTRUMENT_TYPE_MELODIC)

\* The getters of one operator, as getInstrument and getDrumInstrument call them.
getOperator(st, channel, op) ==
    Operator(getTremolo(st, channel, op), getVibrato(st, channel, op),
             getMaintainSustain(st, channel, op), getEnvelopeScaling(st, channel, op),
             getMultiplier(st, channel, op), getScalingLevel(st, channel, op),
             getVolume(st, channel, op), getAttack(st, channel, op),
             getDecay(st, channel, op), getSustain(st, channel, op),
             getRelease(st, channel, op), getWaveForm(st, channel, op))

\* OPL2::getInstrument
getInstrument(st, channel) ==
    Instrument(getOperator(st, channel, OPERATOR1), getOperator(st, channel, OPERATOR2),
               getFeedback(st, channel), getSynthMode(st, channel),
               INSTRUMENT_TYPE_MELODIC)

\* OPL2::getDrumInstrument
getDrumInstrument(st, drumType) ==
    LET channel == drumChannels[drumType - INSTRUMENT_TYPE_BASS]
        blank == createInstrument
        slot(op) ==
            IF drumRegisterOffsets[op][drumType - INSTRUMENT_TYPE_BASS] # \hFF
            THEN getOperator(st, channel, op)
            ELSE blank.operators[op]
    IN  Instrument(slot(OPERATOR1), slot(OPERATOR2), \h00, FALSE, drumType)

\* A float volume is modelled as a number of quarters: VolumeUnit quarters are 1.0.
\* Every product (63 - outputLevel) * volume of such a volume is exact in a float.
VolumeUnit == 4
VOLUME_MIN == 0
VOLUME_MAX == VolumeUnit

\* An output level scaled without the inversion back to attenuation.
scaledOutputLevelLoudness(outputLevel, volume) ==
    ToByte(((63 - outputLevel) * volume) \div VolumeUnit)

\* byte outputLevel = 63 - (byte)((63.0 - (float)outputLevel) * volume), for an
\* outputLevel of at most 63: the conversion to byte truncates toward zero.
scaledOutputLevel(outputLevel, volume) ==
    ToByte(63 - ToByte(((63 - outputLevel) * volume) \div VolumeUnit))

\* The five register groups of one operator, as setInstrument packs them.
operatorBytes(operator, outputLevel) ==
    <<(IF operator.hasTremolo THEN \h80 ELSE \h00)
        + (IF operator.hasVibrato THEN \h40 ELSE \h00)
        + (IF operator.hasSustain THEN \h20 ELSE \h00)
        + (IF operator.hasEnvelopeScaling THEN \h10 ELSE \h00)
        + BitAnd(operator.frequencyMultiplier, \h0F),
      BitAnd(operator.keyScaleLevel, \h03) * 64 + BitAnd(outputLevel, \h3F),
      BitAnd(operator.attack, \h0F) * 16 + BitAnd(operator.decay, \h0F),
      BitAnd(operator.sustain, \h0F) * 16 + BitAnd(operator.release, \h0F),
      BitAnd(operator.waveForm, \h03)>>

\* The five writes of one pass of the operator loop.
writeOperator(st, registerOffset, bytes) ==
    LET s1 == write(st, \h20 + registerOffset, bytes[1])
        s2 == write(s1, \h40 + registerOffset, bytes[2])
        s3 == write(s2, \h60 + registerOffset, bytes[3])
        s4 == write(s3, \h80 + registerOffset, bytes[4])
    IN  write(s4, \hE0 + registerOffset, bytes[5])

\* OPL2::setInstrument(byte channel, Instrument instrument, float volume)
setInstrument(st, channel0, instrument, volume0) ==
    LET channel == max(ZERO, min(channel0, CHANNEL_MAX))
        volume == max(VOLUME_MIN, min(volume0, VOLUME_MAX))
        s0 == setWaveFormSelect(st, TRUE)
        pass(s, op) ==
            writeOperator(s, registerOffsets[op][channel],
                operatorBytes(instrument.operators[op],
                    scaledOutputLevel(instrument.operators[op].outputLevel, volume)))
        s2 == pass(pass(s0, OPERATOR1), OPERATOR2)
    IN  write(s2, \hC0 + channel,
              BitAnd(instrument.feedback, \h07) * 2
                  + (IF instrument.isAdditiveSynth THEN \h01 ELSE \h00))

\* A setDrumInstrument that writes both operators of the drum's channel.
setDrumInstrumentBothOperators(st, instrument, volume0) ==
    LET volume == max(VOLUME_MIN, min(volume0, VOLUME_MAX))
        s0 == setWaveFormSelect(st, TRUE)
        channel == drumChannels[instrument.type - INSTRUMENT_TYPE_BASS]
        pass(s, op) ==
            writeOperator(s, registerOffsets[op][channel],
                operatorBytes(instrument.operators[0],
                    scaledOutputLevel(instrument.operators[op].outputLevel, volume)))
        s2 == pass(pass(s0, OPERATOR1), OPERATOR2)
    IN  write(s2, \hC0 + channel, \h00)

\* OPL2::setDrumInstrument(Instrument instrument, float volume); every field but
\* the output level is read from instrument.operators[0] in both passes.
setDrumInstrument(st, instrument, volume0) ==
    LET volume == max(VOLUME_MIN, min(volume0, VOLUME_MAX))
        s0 == setWaveFormSelect(st, TRUE)
        pass(s, op) ==
            LET registerOffset == drumRegisterOffsets[op][instrument.type - INSTRUMENT_TYPE_BASS]
            IN  IF registerOffset # \hFF
                THEN writeOperator(s, registerOffset,
                         operatorBytes(instrument.operators[0],
                             scaledOutputLevel(instrument.operators[op].outputLevel, volume)))
                ELSE s
        s2 == pass(pass(s0, OPERATOR1), OPERATOR2)
    IN  write(s2, \hC0 + drumChannels[instrument.type - INSTRUMENT_TYPE_BASS], \h00)

(***************************************************************************)
(* Frequencies.  A float frequency is a whole number of millihertz; the    *)
(* tables hold the values the comment of setBlock lists, in millihertz.    *)
(***************************************************************************)
F_NUM_MIN == 0
F_NUM_MAX == 1023

\* fIntervals[block]: the frequency step per F-number of each block.
fIntervals == [b \in 0..7 |-> <<48, 95, 190, 379, 759, 1517, 3034, 6069>>[b + 1]]

\* blockFrequencies[block]: the frequency ceiling of each block.
blockFrequencies ==
    [b \in 0..7 |->
        <<48503, 97006, 194013, 388026, 776053, 1552107, 3104215, 6208431>>[b + 1]]

\* frequency / fInterval with the fraction dropped, as the conversion to an
\* integer type drops it (toward zero).
truncatedQuotient(a, b) == IF a >= 0 THEN a \div b ELSE 0 - ((0 - a) \div b)

\* What a build makes of (short) x for a float x outside -32768..32767, which
\* the language leaves undefined: the low 16 bits of the 32-bit conversion, or
\* the nearest short.
ShortCasts == {"wrap", "saturate"}

\* (short) x, for x already truncated and within the 32-bit range.
toShort(x, cast) ==
    IF x >= -32768 /\ x <= 32767 THEN x
    ELSE IF cast = "wrap" THEN ((x + 32768) % 65536) - 32768
    ELSE IF x > 0 THEN 32767 ELSE -32768

\* OPL2::getFrequencyStep
getFrequencyStep(st, channel) == fIntervals[getBlock(st, channel)]

\* OPL2::getFrequencyFNumber
getFrequencyFNumber(st, channel, frequency, cast) ==
    LET fInterval == getFrequencyStep(st, channel)
    IN  max(F_NUM_MIN,
            min(toShort(truncatedQuotient(frequency, fInterval), cast), F_NUM_MAX))

\* A getFrequencyBlock that compares with <= where the code compares with <.
getFrequencyBlockInclusive(frequency) ==
    IF \E i \in 0..7 : frequency <= blockFrequencies[i]
    THEN CHOOSE i \in 0..7 :
             /\ frequency <= blockFrequencies[i]
             /\ \A j \in 0..(i - 1) : ~(frequency <= blockFrequencies[j])
    ELSE 7

\* OPL2::getFrequencyBlock: the first i of the loop over 0..7 with
\* frequency < blockFrequencies[i], 7 when the loop ends without one.
getFrequencyBlock(frequency) ==
    IF \E i \in 0..7 : frequency < blockFrequencies[i]
    THEN CHOOSE i \in 0..7 :
             /\ frequency < blockFrequencies[i]
             /\ \A j \in 0..(i - 1) : ~(frequency < blockFrequencies[j])
    ELSE 7

\* A setFrequency that never switches the block.
setFrequencyKeepsBlock(st, channel, frequency, cast) ==
    setFNumber(st, channel, getFrequencyFNumber(st, channel, frequency, cast))

\* OPL2::setFrequency
setFrequency(st, channel, frequency, cast) ==
    LET block == getFrequencyBlock(frequency)
        s1 == IF getBlock(st, channel) # block THEN setBlock(st, channel, block) ELSE st
        fNumber == getFrequencyFNumber(s1, channel, frequency, cast)
    IN  setFNumber(s1, channel, fNumber)

(***************************************************************************)
(* Notes and drums.                                                        *)
(***************************************************************************)
\* OPL2::getNoteFNumber
getNoteFNumber(note) == noteFNumbers[max(ZERO, min(note, NOTE_MAX))]

\* A playNote that does not key the channel off first.
playNoteNoKeyOff(st, channel, octave, note) ==
    LET s2 == setBlock(st, channel, max(ZERO, min(octave, OCTAVE_MAX)))
        s3 == setFNumber(s2, channel, noteFNumbers[max(ZERO, min(note, NOTE_MAX))])
    IN  setKeyOn(s3, channel, TRUE)

\* OPL2::playNote
playNote(st, channel, octave, note) ==
    LET s1 == setKeyOn(st, channel, FALSE)
        s2 == setBlock(s1, channel, max(ZERO, min(octave, OCTAVE_MAX)))
        s3 == setFNumber(s2, channel, noteFNumbers[max(ZERO, min(note, NOTE_MAX))])
    IN  setKeyOn(s3, channel, TRUE)

\* A playDrum that keys the drum's channel on, as playNote does.
playDrumKeyOn(st, drum0, octave, note) ==
    LET drum == drum0 % DRUM_SOUND_MAX
        drumState == getDrums(st)
        s1 == setDrums(st, BitAnd(drumState, BitNot(drumBits[drum])))
        drumChannel == drumChannels[drum % DRUM_SOUND_MAX]
        s2 == setBlock(s1, drumChannel, max(ZERO, min(octave, OCTAVE_MAX)))
        s3 == setFNumber(s2, drumChannel, noteFNumbers[max(ZERO, min(note, NOTE_MAX))])
        s4 == setKeyOn(s3, drumChannel, TRUE)
    IN  setDrums(s4, BitOr(drumState, drumBits[drum]))

\* A playDrum whose last write sets the drum's trigger bit alone.
playDrumDropsOthers(st, drum0, octave, note) ==
    LET drum == drum0 % DRUM_SOUND_MAX
        drumState == getDrums(st)
        s1 == setDrums(st, BitAnd(drumState, BitNot(drumBits[drum])))
        drumChannel == drumChannels[drum % DRUM_SOUND_MAX]
        s2 == setBlock(s1, drumChannel, max(ZERO, min(octave, OCTAVE_MAX)))
        s3 == setFNumber(s2, drumChannel, noteFNumbers[max(ZERO, min(note, NOTE_MAX))])
    IN  setDrums(s3, drumBits[drum])

\* OPL2::playDrum
playDrum(st, drum0, octave, note) ==
    LET drum == drum0 % DRUM_SOUND_MAX
        drumState == getDrums(st)
        s1 == setDrums(st, BitAnd(drumState, BitNot(drumBits[drum])))
        drumChannel == drumChannels[drum % DRUM_SOUND_MAX]
        s2 == setBlock(s1, drumChannel, max(ZERO, min(octave, OCTAVE_MAX)))
        s3 == setFNumber(s2, drumChannel, noteFNumbers[max(ZERO, min(note, NOTE_MAX))])
    IN  setDrums(s3, BitOr(drumState, drumBits[drum]))

\* A reset whose loop stops one register short.
resetShort(st) ==
    [st EXCEPT !.regs = [i \in Address |-> IF i < 255 THEN \h00 ELSE @[i]],
               !.chip = [i \in Address |-> IF i < 255 THEN \h00 ELSE @[i]],
               !.bus = Append(@, ResetPulse) \o [i \in 1..255 |-> WriteEvent(i - 1, \h00)]]

\* OPL2::reset: the reset line is pulsed, then the loop over i = 0..255 zeroes
\* oplRegisters[i] and writes 0x00 to register i, in ascending order.
reset(st) ==
    [st EXCEPT !.regs = [i \in Address |-> \h00],
               !.chip = [i \in Address |-> \h00],
               !.bus = Append(@, ResetPulse) \o [i \in 1..256 |-> WriteEvent(i - 1, \h00)]]

(***************************************************************************)
(* The state machine: one action per public operation.                     *)
(***************************************************************************)
NoInstrument == createInstrument

Op(name, args, instrument) == [name |-> name, args |-> args, instr |-> instrument]

\* A register file holding the same byte at every address.
Filled(b) == [a \in Address |-> b]

\* The bytes the register file is filled with where its content is arbitrary.
Fills == {\h00, \hFF, \hA5}

\* After construction: the constructors set the pins only, oplRegisters holds
\* whatever the memory held, and nothing has been transmitted.
Init ==
    /\ oplRegisters \in {Filled(b) : b \in Fills}
    /\ chip = [a \in Address |-> -1]
    /\ bus = <<>>
    /\ ret = 0
    /\ lastOp = Op("OPL2", <<>>, NoInstrument)
    /\ resetDone = FALSE
    /\ nOps = 0

\* A register file that setRegister calls have filled, the last of them
\* setRegister(0xFF, b), with one more operation to run.
InitAny ==
    /\ \E b \in Fills :
        /\ oplRegisters = Filled(b)
        /\ chip = Filled(b)
        /\ bus = <<WriteEvent(\hFF, b)>>
        /\ lastOp = Op("setRegister", <<\hFF, b>>, NoInstrument)
    /\ ret = \hFF
    /\ resetDone = TRUE
    /\ nOps = MaxOps - 1

\* An operation may run: reset() has run, and the sequence is not at its bound.
Ready == resetDone /\ nOps < MaxOps

\* The handler has run from Cur and left the context r.
Call(name, args, instrument, r) ==
    /\ Ready
    /\ oplRegisters' = r.regs
    /\ chip' = r.chip
    /\ bus' = r.bus
    /\ ret' = r.ret
    /\ lastOp' = Op(name, args, instrument)
    /\ nOps' = nOps + 1
    /\ UNCHANGED resetDone

\* reset() is what init() runs first; it may run again at any time.
Reset ==
    /\ ~resetDone \/ nOps < MaxOps
    /\ LET r == reset(Cur)
       IN  /\ oplRegisters' = r.regs
           /\ chip' = r.chip
           /\ bus' = r.bus
           /\ ret' = r.ret
    /\ lastOp' = Op("reset", <<>>, NoInstrument)
    /\ resetDone' = TRUE
    /\ nOps' = IF resetDone THEN nOps + 1 ELSE 0

SetRegister(reg, value) ==
    Call("setRegister", <<reg, value>>, NoInstrument, setRegister(Cur, reg, value))

SetWaveFormSelect(enable) ==
    Call("setWaveFormSelect", <<enable>>, NoInstrument, setWaveFormSelect(Cur, enable))

SetTremolo(channel, operatorNum, enable) ==
    Call("setTremolo", <<channel, operatorNum, enable>>, NoInstrument,
         setTremolo(Cur, channel, operatorNum, enable))

SetVibrato(channel, operatorNum, enable) ==
    Call("setVibrato", <<channel, operatorNum, enable>>, NoInstrument,
         setVibrato(Cur, channel, operatorNum, enable))

SetMaintainSustain(channel, operatorNum, enable) ==
    Call("setMaintainSustain", <<channel, operatorNum, enable>>, NoInstrument,
         setMaintainSustain(Cur, channel, operatorNum, enable))

SetEnvelopeScaling(channel, operatorNum, enable) ==
    Call("setEnvelopeScaling", <<channel, operatorNum, enable>>, NoInstrument,
         setEnvelopeScaling(Cur, channel, operatorNum, enable))

SetMultiplier(channel, operatorNum, multiplier) ==
    Call("setMultiplier", <<channel, operatorNum, multiplier>>, NoInstrument,
         setMultiplier(Cur, channel, operatorNum, multiplier))

SetScalingLevel(channel, operatorNum, scaling) ==
    Call("setScalingLevel", <<channel, operatorNum, scaling>>, NoInstrument,
         setScalingLevel(Cur, channel, operatorNum, scaling))

SetVolume(channel, operatorNum, volume) ==
    Call("setVolume", <<channel, operatorNum, volume>>, NoInstrument,
         setVolume(Cur, channel, operatorNum, volume))

SetAttack(channel, operatorNum, attack) ==
    Call("setAttack", <<channel, operatorNum, attack>>, NoInstrument,
         setAttack(Cur, channel, operatorNum, attack))

SetDecay(channel, operatorNum, decay) ==
    Call("setDecay", <<channel, operatorNum, decay>>, NoInstrument,
         setDecay(Cur, channel, operatorNum, decay))

SetSustain(channel, operatorNum, sustain) ==
    Call("setSustain", <<channel, operatorNum, sustain>>, NoInstrument,
         setSustain(Cur, channel, operatorNum, sustain))

SetRelease(channel, operatorNum, release) ==
    Call("setRelease", <<channel, operatorNum, release>>, NoInstrument,
         setRelease(Cur, channel, operatorNum, release))

SetWaveForm(channel, operatorNum, waveForm) ==
    Call("setWaveForm", <<channel, operatorNum, waveForm>>, NoInstrument,
         setWaveForm(Cur, channel, operatorNum, waveForm))

SetFNumber(channel, fNumber) ==
    Call("setFNumber", <<channel, fNumber>>, NoInstrument, setFNumber(Cur, channel, fNumber))

SetBlock(channel, block) ==
    Call("setBlock", <<channel, block>>, NoInstrument, setBlock(Cur, channel, block))

SetKeyOn(channel, keyOn) ==
    Call("setKeyOn", <<channel, keyOn>>, NoInstrument, setKeyOn(Cur, channel, keyOn))

SetFeedback(channel, feedback) ==
    Call("setFeedback", <<channel, feedback>>, NoInstrument, setFeedback(Cur, channel, feedback))

SetSynthMode(channel, isAdditive) ==
    Call("setSynthMode", <<channel, isAdditive>>, NoInstrument,
         setSynthMode(Cur, channel, isAdditive))

SetDeepTremolo(enable) ==
    Call("setDeepTremolo", <<enable>>, NoInstrument, setDeepTremolo(Cur, enable))

SetDeepVibrato(enable) ==
    Call("setDeepVibrato", <<enable>>, NoInstrument, setDeepVibrato(Cur, enable))

SetPercussion(enable) ==
    Call("setPercussion", <<enable>>, NoInstrument, setPercussion(Cur, enable))

SetDrums(drums) ==
    Call("setDrums", <<drums>>, NoInstrument, setDrums(Cur, drums))

SetDrumsFlags(bass, snare, tom, cymbal, hihat) ==
    Call("setDrumsFlags", <<bass, snare, tom, cymbal, hihat>>, NoInstrument,
         setDrumsFlags(Cur, bass, snare, tom, cymbal, hihat))

SetInstrument(channel, instrument, volume) ==
    Call("setInstrument", <<channel, volume>>, instrument,
         setInstrument(Cur, channel, instrument, volume))

SetDrumInstrument(instrument, volume) ==
    Call("setDrumInstrument", <<volume>>, instrument,
         setDrumInstrument(Cur, instrument, volume))

PlayNote(channel, octave, note) ==
    Call("playNote", <<channel, octave, note>>, NoInstrument,
         playNote(Cur, channel, octave, note))

PlayDrum(drum, octave, note) ==
    Call("playDrum", <<drum, octave, note>>, NoInstrument, playDrum(Cur, drum, octave, note))

GetFrequencyFNumber(channel, frequency, cast) ==
    Call("getFrequencyFNumber", <<channel, frequency, cast>>, NoInstrument,
         [Cur EXCEPT !.ret = getFrequencyFNumber(Cur, channel, frequency, cast)])

GetFrequencyBlock(frequency) ==
    Call("getFrequencyBlock", <<frequency>>, NoInstrument,
         [Cur EXCEPT !.ret = getFrequencyBlock(frequency)])

SetFrequency(channel, frequency, cast) ==
    Call("setFrequency", <<channel, frequency, cast>>, NoInstrument,
         setFrequency(Cur, channel, frequency, cast))

(***************************************************************************)
(* Inputs.                                                                 *)
(***************************************************************************)
\* Operator records: blank, every field at its maximum, and two mixed ones.
OpZero == Operator(FALSE, FALSE, FALSE, FALSE, 0, 0, 0, 0, 0, 0, 0, 0)
OpMax == Operator(TRUE, TRUE, TRUE, TRUE, 15, 3, 63, 15, 15, 15, 15, 3)
OpMixA == Operator(TRUE, FALSE, TRUE, FALSE, 5, 2, 21, 10, 3, 12, 6, 1)
OpMixB == Operator(FALSE, TRUE, FALSE, TRUE, 10, 1, 42, 4, 9, 2, 13, 2)
OpRecords == {OpZero, OpMax, OpMixA, OpMixB}

\* One mixed operator at each output level.
OpLevel(op, l) == [op EXCEPT !.outputLevel = l]

Feedbacks == {<<0, FALSE>>, <<2, TRUE>>, <<5, FALSE>>, <<7, TRUE>>}

\* Melodic instruments: every pair of operator records with every feedback
\* pattern, and the mixed pair at every pair of output levels l, 63 - l.
MelodicInstruments ==
    {Instrument(a, b, f[1], f[2], INSTRUMENT_TYPE_MELODIC) :
        a \in OpRecords, b \in OpRecords, f \in Feedbacks}
    \cup {Instrument(OpLevel(OpMixA, l), OpLevel(OpMixB, 63 - l), 3, TRUE,
                     INSTRUMENT_TYPE_MELODIC) : l \in 0..63}

DrumTypes == INSTRUMENT_TYPE_BASS..(INSTRUMENT_TYPE_BASS + 4)

DrumInstruments ==
    {Instrument(a, b, f[1], f[2], t) :
        a \in OpRecords, b \in OpRecords, f \in {<<0, FALSE>>, <<5, TRUE>>}, t \in DrumTypes}

\* Volumes: below 0.0, 0.0, a half, 1.0 and above 1.0.
Volumes == {-1, 0, 2, VolumeUnit, VolumeUnit + 1}

\* Channel, operator, octave, note and drum arguments, in and out of range.
Channels == 0..CHANNEL_MAX \cup {CHANNEL_MAX + 1, 255}
Operators == {0, 1, 2}
Octaves == 0..OCTAVE_MAX \cup {OCTAVE_MAX + 1, 255}
Notes == 0..NOTE_MAX \cup {NOTE_MAX + 1, 255}
Drums == 0..4

\* Drum arguments in and out of range.
DrumsAny == Drums \cup {DRUM_SOUND_MAX, DRUM_SOUND_MAX + 1, 255}

\* Frequencies in millihertz: zero and the smallest, each block ceiling with its
\* neighbours, the block 0 and block 1 frequencies of F-numbers 1, 500, 1023
\* and 1024, and frequencies whose quotient by the step of block 0, 1 or 7
\* reaches 32767, 32768, 65536 and beyond.
Frequencies ==
    {0, 1, 47, 48, 95, 24000, 47500, 49104, 49152, 97185, 97280, 100000, 440000,
     1572815, 1572864, 2000000, 3112960, 3145728, 3150000, 10000000,
     198862000, 198900000, 400000000}
    \cup UNION {{blockFrequencies[b] - 1, blockFrequencies[b], blockFrequencies[b] + 1} :
                   b \in 0..7}

\* Field values: every value of the field's width, the first above it and 255.
Width(maxValue) == 0..(maxValue + 1) \cup {255}

FNumbers == {0, 1, \hFF, \h100, \h2AB, \h3FF}

\* The inputs of the operation sequences: one melodic and one percussion
\* channel, one instrument of each kind.
SeqChannels == {0, 7}
SeqOperators == {1}
SeqValues == {\h2A}
SeqMelodic == Instrument(OpMixA, OpMixB, 5, TRUE, INSTRUMENT_TYPE_MELODIC)
SeqDrum == Instrument(OpMixB, OpMixA, 0, FALSE, INSTRUMENT_TYPE_BASS + 1)

(***************************************************************************)
(* Next: sequences of operations after reset(), on the inputs above.       *)
(***************************************************************************)
Next ==
    \/ Reset
    \/ Ready /\ \E reg \in {\h40, \hBD}, value \in {\hFF} :
           SetRegister(reg, value)
    \/ Ready /\ \E enable \in BOOLEAN :
           SetWaveFormSelect(enable)
    \/ Ready /\ \E c \in SeqChannels, op \in SeqOperators, enable \in BOOLEAN :
           SetTremolo(c, op, enable)
    \/ Ready /\ \E c \in SeqChannels, op \in SeqOperators, enable \in BOOLEAN :
           SetVibrato(c, op, enable)
    \/ Ready /\ \E c \in SeqChannels, op \in SeqOperators, enable \in BOOLEAN :
           SetMaintainSustain(c, op, enable)
    \/ Ready /\ \E c \in SeqChannels, op \in SeqOperators, enable \in BOOLEAN :
           SetEnvelopeScaling(c, op, enable)
    \/ Ready /\ \E c \in SeqChannels, op \in SeqOperators, v \in SeqValues :
           SetMultiplier(c, op, v)
    \/ Ready /\ \E c \in SeqChannels, op \in SeqOperators, v \in SeqValues :
           SetScalingLevel(c, op, v)
    \/ Ready /\ \E c \in SeqChannels, op \in SeqOperators, v \in SeqValues :
           SetVolume(c, op, v)
    \/ Ready /\ \E c \in SeqChannels, op \in SeqOperators, v \in SeqValues :
           SetAttack(c, op, v)
    \/ Ready /\ \E c \in SeqChannels, op \in SeqOperators, v \in SeqValues :
           SetDecay(c, op, v)
    \/ Ready /\ \E c \in SeqChannels, op \in SeqOperators, v \in SeqValues :
           SetSustain(c, op, v)
    \/ Ready /\ \E c \in SeqChannels, op \in SeqOperators, v \in SeqValues :
           SetRelease(c, op, v)
    \/ Ready /\ \E c \in SeqChannels, op \in SeqOperators, v \in SeqValues :
           SetWaveForm(c, op, v)
    \/ Ready /\ \E c \in SeqChannels :
           SetFNumber(c, \h2AB)
    \/ Ready /\ \E c \in SeqChannels :
           SetBlock(c, 5)
    \/ Ready /\ \E c \in SeqChannels, keyOn \in BOOLEAN :
           SetKeyOn(c, keyOn)
    \/ Ready /\ \E c \in SeqChannels :
           SetFeedback(c, 5)
    \/ Ready /\ \E c \in SeqChannels, isAdditive \in BOOLEAN :
           SetSynthMode(c, isAdditive)
    \/ Ready /\ \E enable \in BOOLEAN :
           SetDeepTremolo(enable)
    \/ Ready /\ \E enable \in BOOLEAN :
           SetDeepVibrato(enable)
    \/ Ready /\ \E enable \in BOOLEAN :
           SetPercussion(enable)
    \/ Ready /\ SetDrums(\h15)
    \/ Ready /\ SetDrumsFlags(FALSE, TRUE, FALSE, TRUE, FALSE)
    \/ Ready /\ \E c \in SeqChannels :
           SetInstrument(c, SeqMelodic, VolumeUnit)
    \/ Ready /\ SetDrumInstrument(SeqDrum, VolumeUnit)
    \/ Ready /\ \E c \in SeqChannels :
           PlayNote(c, 4, 9)
    \/ Ready /\ \E drum \in {0, 1} :
           PlayDrum(drum, 3, 2)

Spec == Init /\ [][Next]_vars

(***************************************************************************)
(* NextAny: one operation, on every input, from an arbitrary register      *)
(* file.                                                                   *)
(***************************************************************************)
NextAny ==
    \/ Reset
    \/ Ready /\ \E reg \in {\h00, \h40, \hBD, \hFF}, value \in {\h00, \h20, \hFF} :
           SetRegister(reg, value)
    \/ Ready /\ \E enable \in BOOLEAN :
           SetWaveFormSelect(enable)
    \/ Ready /\ \E c \in Channels, op \in Operators, enable \in BOOLEAN :
           SetTremolo(c, op, enable)
    \/ Ready /\ \E c \in Channels, op \in Operators, enable \in BOOLEAN :
           SetVibrato(c, op, enable)
    \/ Ready /\ \E c \in Channels, op \in Operators, enable \in BOOLEAN :
           SetMaintainSustain(c, op, enable)
    \/ Ready /\ \E c \in Channels, op \in Operators, enable \in BOOLEAN :
           SetEnvelopeScaling(c, op, enable)
    \/ Ready /\ \E c \in Channels, op \in Operators, v \in Width(15) :
           SetMultiplier(c, op, v)
    \/ Ready /\ \E c \in Channels, op \in Operators, v \in Width(3) :
           SetScalingLevel(c, op, v)
    \/ Ready /\ \E c \in Channels, op \in Operators, v \in Width(63) :
           SetVolume(c, op, v)
    \/ Ready /\ \E c \in Channels, op \in Operators, v \in Width(15) :
           SetAttack(c, op, v)
    \/ Ready /\ \E c \in Channels, op \in Operators, v \in Width(15) :
           SetDecay(c, op, v)
    \/ Ready /\ \E c \in Channels, op \in Operators, v \in Width(15) :
           SetSustain(c, op, v)
    \/ Ready /\ \E c \in Channels, op \in Operators, v \in Width(15) :
           SetRelease(c, op, v)
    \/ Ready /\ \E c \in Channels, op \in Operators, v \in Width(3) :
           SetWaveForm(c, op, v)
    \/ Ready /\ \E c \in Channels, f \in FNumbers :
           SetFNumber(c, f)
    \/ Ready /\ \E c \in Channels, v \in Width(7) :
           SetBlock(c, v)
    \/ Ready /\ \E c \in Channels, keyOn \in BOOLEAN :
           SetKeyOn(c, keyOn)
    \/ Ready /\ \E c \in Channels, v \in Width(7) :
           SetFeedback(c, v)
    \/ Ready /\ \E c \in Channels, isAdditive \in BOOLEAN :
           SetSynthMode(c, isAdditive)
    \/ Ready /\ \E enable \in BOOLEAN :
           SetDeepTremolo(enable)
    \/ Ready /\ \E enable \in BOOLEAN :
           SetDeepVibrato(enable)
    \/ Ready /\ \E enable \in BOOLEAN :
           SetPercussion(enable)
    \/ Ready /\ \E v \in Width(31) :
           SetDrums(v)
    \/ Ready /\ \E b, s, t, c, h \in BOOLEAN :
           SetDrumsFlags(b, s, t, c, h)
    \/ Ready /\ \E c \in Channels, i \in MelodicInstruments, v \in Volumes :
           SetInstrument(c, i, v)
    \/ Ready /\ \E i \in DrumInstruments, v \in Volumes :
           SetDrumInstrument(i, v)
    \/ Ready /\ \E c \in Channels, octave \in Octaves, note \in Notes :
           PlayNote(c, octave, note)
    \/ Ready /\ \E drum \in DrumsAny, octave \in Octaves, note \in Notes :
           PlayDrum(drum, octave, note)
    \/ Ready /\ \E c \in Channels, f \in Frequencies, cast \in ShortCasts :
           GetFrequencyFNumber(c, f, cast)
    \/ Ready /\ \E f \in Frequencies :
           GetFrequencyBlock(f)
    \/ Ready /\ \E c \in Channels, f \in Frequencies, cast \in ShortCasts :
           SetFrequency(c, f, cast)

SpecAny == InitAny /\ [][NextAny]_vars

(***************************************************************************)
(* NextVoice: sequences of setPercussion, setKeyOn, playNote and playDrum  *)
(* after reset().                                                          *)
(***************************************************************************)
VoiceChannels == {0, 5, 6, 7, 8, 9}

NextVoice ==
    \/ Reset
    \/ Ready /\ \E enable \in BOOLEAN :
           SetPercussion(enable)
    \/ Ready /\ \E c \in VoiceChannels, keyOn \in BOOLEAN :
           SetKeyOn(c, keyOn)
    \/ Ready /\ \E c \in VoiceChannels, octave \in {0, 7}, note \in {0, 11} :
           PlayNote(c, octave, note)
    \/ Ready /\ \E drum \in Drums :
           PlayDrum(drum, 3, 2)

SpecVoice == Init /\ [][NextVoice]_vars

(***************************************************************************)
(* Properties.                                                             *)
(***************************************************************************)
\* The arguments of the operation that ran last.
Ran(name) == lastOp.name = name
Arg(i) == lastOp.args[i]
Clamp(x, hi) == max(ZERO, min(x, hi))

\* C1: after reset() and any sequence of public operations, the shadow value
\* of every register address equals the last data byte transmitted for it.
C1_ShadowEqualsTransmitted ==
    resetDone => \A a \in Address : getRegister(Cur, a) = chip[a]

\* C2: setInstrument(channel, instrument, 1.0) followed by getInstrument(channel)
\* returns the instrument, field for field, for every channel 0..8 and every
\* melodic instrument within its bit widths, whatever the registers held.
C2_InstrumentRoundTrip ==
    (Ran("setInstrument") /\ Arg(1) \in 0..CHANNEL_MAX /\ Arg(2) = VOLUME_MAX)
        => getInstrument(Cur, Arg(1)) = lastOp.instr

\* The shadow register file before and after a step.
Before == [regs |-> oplRegisters]
After == [regs |-> oplRegisters']

PercussionChannels == {6, 7, 8}

\* C3 as claimed: in every state reached after reset() in which percussion mode
\* is enabled, the key-on bit of channels 6, 7 and 8 is clear.
C3_PercussionImpliesKeyOff ==
    (resetDone /\ getPercussion(Cur)) => \A c \in PercussionChannels : ~getKeyOn(Cur, c)

\* C3, amended: the library does not keep key-on clear in percussion mode.  The
\* key-on bit of a channel 6..8 goes from clear to set only in a step in which
\* the caller asks for it: setKeyOn(c, true) or playNote(c, ..) on that channel
\* (an index above 8 is channel 8), or setRegister on 0xB0 + c with bit 0x20 set.
\* setPercussion and playDrum never change a key-on bit.
C3_KeyOnSetOnlyOnRequest ==
    [][\A c \in PercussionChannels :
          /\ (~getKeyOn(Before, c) /\ getKeyOn(After, c)) =>
                \/ lastOp'.name = "setKeyOn"
                     /\ Clamp(lastOp'.args[1], CHANNEL_MAX) = c /\ lastOp'.args[2]
                \/ lastOp'.name = "playNote" /\ Clamp(lastOp'.args[1], CHANNEL_MAX) = c
                \/ lastOp'.name = "setRegister" /\ lastOp'.args[1] = \hB0 + c
          /\ lastOp'.name \in {"setPercussion", "playDrum"} =>
                getKeyOn(After, c) = getKeyOn(Before, c)]_vars

\* playDrum has run in percussion mode with key-on clear on channels 6..8.
C3_Witness ==
    /\ Ran("playDrum")
    /\ getPercussion(Cur)
    /\ \A c \in PercussionChannels : ~getKeyOn(Cur, c)

\* C4: after reset(), from any register file, every register reads 0, and
\* reset() has pulsed the reset line and then transmitted a write of 0 to each
\* of the 256 addresses.
C4_ResetZeroesAll ==
    Ran("reset") =>
        /\ \A a \in Address : getRegister(Cur, a) = 0
        /\ bus[1] = ResetPulse
        /\ \A i \in 2..Len(bus) : bus[i].kind = "write" /\ bus[i].data = 0
        /\ \A a \in Address : \E i \in 2..Len(bus) : bus[i].reg = a
        /\ \A a \in Address : chip[a] = 0

\* reset() has run on a register file that earlier operations had filled.
C4_Witness == Ran("reset") /\ nOps = MaxOps

\* The fields of C5: setter name, getter value in the shadow file, field maximum.
FieldGetter(name, c, op) ==
    CASE name = "setVolume" -> getVolume(Cur, c, op)
      [] name = "setAttack" -> getAttack(Cur, c, op)
      [] name = "setDecay" -> getDecay(Cur, c, op)
      [] name = "setSustain" -> getSustain(Cur, c, op)
      [] name = "setRelease" -> getRelease(Cur, c, op)
      [] name = "setMultiplier" -> getMultiplier(Cur, c, op)
      [] name = "setWaveForm" -> getWaveForm(Cur, c, op)

FieldMax(name) ==
    CASE name = "setVolume" -> \h3F
      [] name = "setWaveForm" -> 3
      [] OTHER -> \h0F

PackedSetters ==
    {"setVolume", "setAttack", "setDecay", "setSustain", "setRelease", "setMultiplier",
     "setWaveForm"}

\* C5: for every channel 0..8, operator 0..1 and value within the field's
\* width, each packed-field setter followed by its getter returns the value.
C5_SetterGetterRoundTrip ==
    (lastOp.name \in PackedSetters /\ Arg(1) \in 0..CHANNEL_MAX /\ Arg(2) \in 0..1
        /\ Arg(3) \in 0..FieldMax(lastOp.name))
        => FieldGetter(lastOp.name, Arg(1), Arg(2)) = Arg(3)

\* setSustain(8, 1, 9) has run on a register file whose bits were all set.
C5_Witness ==
    /\ Ran("setSustain") /\ lastOp.args = <<8, 1, 9>>
    /\ getRelease(Cur, 8, 1) = \h0F
    /\ getSustain(Cur, 8, 1) = 9

\* The single-field setters of C6: the register each one owns for the call that
\* ran, and the mask of its own field in that register.
OperatorSetterBase(name) ==
    CASE name \in {"setTremolo", "setVibrato", "setMaintainSustain", "setEnvelopeScaling",
                   "setMultiplier"} -> \h20
      [] name \in {"setScalingLevel", "setVolume"} -> \h40
      [] name \in {"setAttack", "setDecay"} -> \h60
      [] name \in {"setSustain", "setRelease"} -> \h80
      [] name = "setWaveForm" -> \hE0

ChannelSetterBase(name) ==
    CASE name \in {"setBlock", "setKeyOn"} -> \hB0
      [] name \in {"setFeedback", "setSynthMode"} -> \hC0

OperatorSetters ==
    {"setTremolo", "setVibrato", "setMaintainSustain", "setEnvelopeScaling", "setMultiplier",
     "setScalingLevel", "setVolume", "setAttack", "setDecay", "setSustain", "setRelease",
     "setWaveForm"}
ChannelSetters == {"setBlock", "setKeyOn", "setFeedback", "setSynthMode"}
GlobalSetters == {"setDeepTremolo", "setDeepVibrato", "setPercussion", "setWaveFormSelect"}
FieldSetters == OperatorSetters \cup ChannelSetters \cup GlobalSetters

OwnRegister(op) ==
    IF op.name \in OperatorSetters
    THEN OperatorSetterBase(op.name)
             + registerOffsets[Clamp(op.args[2], 1)][Clamp(op.args[1], CHANNEL_MAX)]
    ELSE IF op.name \in ChannelSetters
    THEN ChannelSetterBase(op.name) + Clamp(op.args[1], CHANNEL_MAX)
    ELSE IF op.name = "setWaveFormSelect" THEN \h01 ELSE \hBD

OwnMask(name) ==
    CASE name \in {"setTremolo", "setDeepTremolo"} -> \h80
      [] name \in {"setVibrato", "setDeepVibrato"} -> \h40
      [] name \in {"setMaintainSustain", "setKeyOn", "setPercussion", "setWaveFormSelect"} -> \h20
      [] name = "setEnvelopeScaling" -> \h10
      [] name \in {"setMultiplier", "setDecay", "setRelease"} -> \h0F
      [] name = "setScalingLevel" -> \hC0
      [] name = "setVolume" -> \h3F
      [] name \in {"setAttack", "setSustain"} -> \hF0
      [] name = "setWaveForm" -> \h03
      [] name = "setBlock" -> \h1C
      [] name = "setFeedback" -> \h0E
      [] name = "setSynthMode" -> \h01

\* The step changed, in the shadow file, nothing but the bits of mask in register reg.
ChangesOnly(reg, mask) ==
    /\ \A a \in Address \ {reg} : oplRegisters'[a] = oplRegisters[a]
    /\ BitAnd(oplRegisters'[reg], 255 - mask) = BitAnd(oplRegisters[reg], 255 - mask)

\* C6 as claimed: every single-field setter and boolean toggle changes, in the
\* shadow file, only the bits of its own field mask in its own register.
C6_SetterChangesOwnFieldOnly ==
    [][lastOp'.name \in FieldSetters
          => ChangesOnly(OwnRegister(lastOp'), OwnMask(lastOp'.name))]_vars

\* C6, amended: every single-field setter and boolean toggle other than
\* setFeedback changes only the bits of its own field mask in its own register.
\* setFeedback changes no other register and keeps bit 0 (synth mode) of
\* register 0xC0 + channel, and it clears the four upper bits 0xF0 of that
\* register whatever they held.
C6_SetterFrame ==
    [][/\ lastOp'.name \in FieldSetters \ {"setFeedback"}
            => ChangesOnly(OwnRegister(lastOp'), OwnMask(lastOp'.name))
       /\ lastOp'.name = "setFeedback"
            => /\ ChangesOnly(OwnRegister(lastOp'), \hFE)
               /\ BitAnd(oplRegisters'[OwnRegister(lastOp')], \hF0) = 0]_vars

\* setFeedback(0, 7) has run on a register whose bits were all set: bit 0 is
\* kept, the feedback bits hold 7 and the upper four bits are clear.
C6_Witness ==
    /\ Ran("setFeedback") /\ lastOp.args = <<0, 7>>
    /\ oplRegisters[\hC0] = \h0F
    /\ oplRegisters[\hC1] = \hFF

KeyOnBit(data) == BitAnd(data, \h20) # 0

\* C7: playNote(channel, octave, note) transmits, in this order, key-off on
\* 0xB0 + channel, the block min(octave, 7), the low byte and then the high bits
\* of noteFNumbers[min(note, 11)], and last key-on; no write before the last
\* has the key-on bit set; afterwards getKeyOn is true, getBlock is the clamped
\* octave and getFNumber the table value.
C7_PlayNoteSequence ==
    Ran("playNote") =>
        LET c == Clamp(Arg(1), CHANNEL_MAX)
            block == min(Arg(2), 7)
            fNumber == noteFNumbers[min(Arg(3), 11)]
        IN  /\ Len(bus) = 5
            /\ \A i \in 1..5 : bus[i].kind = "write"
            /\ <<bus[1].reg, bus[2].reg, bus[3].reg, bus[4].reg, bus[5].reg>>
                   = <<\hB0 + c, \hB0 + c, \hA0 + c, \hB0 + c, \hB0 + c>>
            /\ \A i \in {1, 2, 4} : ~KeyOnBit(bus[i].data)
            /\ BitAnd(bus[2].data, \h1C) = block * 4
            /\ bus[3].data = fNumber % 256
            /\ BitAnd(bus[4].data, \h03) = fNumber \div 256
            /\ BitAnd(bus[4].data, \h1C) = block * 4
            /\ KeyOnBit(bus[5].data)
            /\ bus[5].data = bus[4].data + \h20
            /\ getKeyOn(Cur, c)
            /\ getBlock(Cur, c) = block
            /\ getFNumber(Cur, c) = fNumber

\* playNote has run on a channel that was keyed on, with octave and note above
\* their maxima.
C7_Witness ==
    /\ Ran("playNote") /\ lastOp.args = <<8, 8, 12>>
    /\ bus[1] = WriteEvent(\hB8, \hDF)
    /\ getFNumber(Cur, 8) = \h287

\* The drum arguments in range, and the channel and trigger bit of each.
DrumChannelOf(drum) == <<6, 7, 8, 8, 7>>[drum + 1]
DrumBitOf(drum) == <<\h10, \h08, \h04, \h02, \h01>>[drum + 1]

\* C8: for every valid drum and every prior value of register 0xBD,
\* playDrum(drum, octave, note) transmits 0xBD with the drum's trigger bit
\* clear, then the block and the F-number on the drum's channel, then 0xBD with
\* the trigger bit set; both 0xBD writes keep the other four trigger bits and
\* the three upper bits as they were before the call.
C8_PlayDrumPulse ==
    [][(lastOp'.name = "playDrum" /\ lastOp'.args[1] \in 0..4) =>
          LET old == oplRegisters[\hBD]
              bit == DrumBitOf(lastOp'.args[1])
              c == DrumChannelOf(lastOp'.args[1])
              block == min(lastOp'.args[2], 7)
              fNumber == noteFNumbers[min(lastOp'.args[3], 11)]
              b == bus'
          IN  /\ Len(b) = 5
              /\ \A i \in 1..5 : b[i].kind = "write"
              /\ <<b[1].reg, b[2].reg, b[3].reg, b[4].reg, b[5].reg>>
                     = <<\hBD, \hB0 + c, \hA0 + c, \hB0 + c, \hBD>>
              /\ BitAnd(b[1].data, bit) = 0
              /\ BitAnd(b[1].data, 255 - bit) = BitAnd(old, 255 - bit)
              /\ BitAnd(b[2].data, \h1C) = block * 4
              /\ b[3].data = fNumber % 256
              /\ BitAnd(b[4].data, \h1F) = block * 4 + fNumber \div 256
              /\ BitAnd(b[5].data, bit) = bit
              /\ BitAnd(b[5].data, 255 - bit) = BitAnd(old, 255 - bit)]_vars

\* playDrum has retriggered the snare while every bit of register 0xBD was set.
C8_Witness ==
    /\ Ran("playDrum") /\ Arg(1) = 1
    /\ bus[1] = WriteEvent(\hBD, \hF7)
    /\ bus[5] = WriteEvent(\hBD, \hFF)

\* The data bytes the operation that ran last transmitted to register reg, in order.
Transmitted(b, reg) == SelectSeq(b, LAMBDA e : e.kind = "write" /\ e.reg = reg)

\* C9: setInstrument(channel, instrument, 0.0) transmits output-level bits (the
\* low 6 bits of register 0x40 + offset) of 63 for both operators, and
\* setInstrument(channel, instrument, 1.0) transmits the instrument's output
\* level; in both cases the top 2 bits are the instrument's key-scale level.
C9_VolumeScaling ==
    (Ran("setInstrument") /\ Arg(2) \in {0, VOLUME_MAX}) =>
        \A op \in 0..1 :
            LET reg == \h40 + registerOffsets[op][Clamp(Arg(1), CHANNEL_MAX)]
                sent == Transmitted(bus, reg)
                operator == lastOp.instr.operators[op]
            IN  /\ Len(sent) = 1
                /\ BitAnd(sent[1].data, \h3F)
                       = (IF Arg(2) = 0 THEN 63 ELSE operator.outputLevel)
                /\ sent[1].data \div 64 = operator.keyScaleLevel

\* setInstrument has run at volume 0.0 with an instrument whose operators have
\* output levels 21 and 42, and at volume 1.0 with the same levels.
C9_WitnessSilent ==
    /\ Ran("setInstrument") /\ lastOp.args = <<4, 0>>
    /\ lastOp.instr.operators[0].outputLevel = 21
    /\ lastOp.instr.operators[1].outputLevel = 42
    /\ Transmitted(bus, \h40 + \h09)[1].data = 2 * 64 + 63

C9_Witness ==
    /\ Ran("setInstrument") /\ lastOp.args = <<4, VOLUME_MAX>>
    /\ lastOp.instr.operators[0].outputLevel = 21
    /\ lastOp.instr.operators[1].outputLevel = 42
    /\ Transmitted(bus, \h40 + \h0C)[1].data = 1 * 64 + 42

\* The operator registers: the five bases at every operator offset of a channel.
OperatorBases == {\h20, \h40, \h60, \h80, \hE0}
OperatorOffsets == {registerOffsets[op][c] : op \in 0..1, c \in 0..CHANNEL_MAX}
OperatorRegisters == {base + off : base \in OperatorBases, off \in OperatorOffsets}

SNARE == INSTRUMENT_TYPE_BASS + 1
SnareChannel == drumChannels[SNARE - INSTRUMENT_TYPE_BASS]

\* C10: setDrumInstrument with a snare instrument transmits operator-register
\* writes only at the one offset drumRegisterOffsets marks non-sentinel for the
\* snare, transmits nothing to the five registers of channel 7's other
\* operator, and leaves the shadow values of those five registers unchanged.
C10_SnareWritesOneOperator ==
    [][(lastOp'.name = "setDrumInstrument" /\ lastOp'.instr.type = SNARE) =>
          LET used == {drumRegisterOffsets[op][SNARE - INSTRUMENT_TYPE_BASS] : op \in 0..1}
                          \ {\hFF}
              other == {registerOffsets[op][SnareChannel] : op \in 0..1} \ used
              b == bus'
          IN  /\ Cardinality(used) = 1
              /\ Cardinality(other) = 1
              /\ \A i \in 1..Len(b) :
                    b[i].reg \in OperatorRegisters
                        => \E base \in OperatorBases, off \in used : b[i].reg = base + off
              /\ \A base \in OperatorBases, off \in used :
                    Len(Transmitted(b, base + off)) = 1
              /\ \A base \in OperatorBases, off \in other :
                    /\ Len(Transmitted(b, base + off)) = 0
                    /\ oplRegisters'[base + off] = oplRegisters[base + off]]_vars

\* setDrumInstrument has run with a snare instrument and written the snare's
\* operator registers on the chip, where the other operator's still hold 0xFF.
C10_Witness ==
    /\ Ran("setDrumInstrument") /\ lastOp.instr.type = SNARE
    /\ lastOp.instr.operators[0] = OpMixA
    /\ chip[\h60 + \h14] = \hA3
    /\ chip[\h60 + \h11] = \hFF

\* C11: playDrum called with a drum index above 4 behaves exactly as playDrum
\* called with drum 4 from the same state: the same transmitted writes, in the
\* same order, and the same resulting shadow state.
C11_PlayDrumClampsDrum ==
    [][(lastOp'.name = "playDrum" /\ lastOp'.args[1] > 4) =>
          LET r == playDrum(Cur, 4, lastOp'.args[2], lastOp'.args[3])
          IN  /\ bus' = r.bus
              /\ oplRegisters' = r.regs
              /\ chip' = r.chip]_vars

\* C12: for a fixed channel block, getFrequencyFNumber(channel, f) is
\* non-decreasing in f over all non-negative frequencies, those whose quotient
\* f / step is beyond the 16-bit signed range included; the result lies in
\* F_NUM_MIN..F_NUM_MAX and is the quotient truncated toward zero whenever the
\* quotient is within those bounds.
C12_FNumberMonotone ==
    (Ran("getFrequencyFNumber") /\ Arg(2) >= 0) =>
        LET block == BitAnd(oplRegisters[\hB0 + Clamp(Arg(1), CHANNEL_MAX)], \h1C) \div 4
            quotient == Arg(2) \div fIntervals[block]
        IN  /\ ret \in F_NUM_MIN..F_NUM_MAX
            /\ quotient \in F_NUM_MIN..F_NUM_MAX => ret = quotient
            /\ \A f1 \in Frequencies :
                  (f1 >= 0 /\ f1 < Arg(2))
                      => getFrequencyFNumber(Cur, Arg(1), f1, Arg(3)) <= ret

\* C13: getFrequencyBlock(f) returns the smallest block b in 0..7 with f
\* strictly below blockFrequencies[b], and 7 for every f at or above the highest
\* ceiling; the result is in 0..7 and non-decreasing in f; and
\* setFrequency(channel, f) leaves the channel's block equal to
\* getFrequencyBlock(f).
C13_FrequencyBlock ==
    /\ Ran("getFrequencyBlock") =>
          /\ ret \in 0..7
          /\ Arg(1) < blockFrequencies[7] =>
                /\ Arg(1) < blockFrequencies[ret]
                /\ \A b \in 0..(ret - 1) : Arg(1) >= blockFrequencies[b]
          /\ Arg(1) >= blockFrequencies[7] => ret = 7
          /\ \A f1 \in Frequencies : f1 < Arg(1) => getFrequencyBlock(f1) <= ret
    /\ Ran("setFrequency") =>
          /\ BitAnd(oplRegisters[\hB0 + Clamp(Arg(1), CHANNEL_MAX)], \h1C) \div 4
                 = getFrequencyBlock(Arg(2))
          /\ getBlock(Cur, Arg(1)) = getFrequencyBlock(Arg(2))

\* setFrequency(3, 440.0) has run on a channel that was in block 7: the channel
\* is now in block 4, with F-number 579.
C13_Witness ==
    /\ Ran("setFrequency") /\ Arg(1) = 3 /\ Arg(2) = 440000
    /\ Len(bus) = 3
    /\ bus[1] = WriteEvent(\hB3, \hF3)
    /\ getBlock(Cur, 3) = 4
    /\ getFNumber(Cur, 3) = 579

\* The operations that take a channel.
PerChannelOps ==
    OperatorSetters \cup ChannelSetters
        \cup {"setFNumber", "setInstrument", "playNote", "setFrequency", "getFrequencyFNumber"}

\* The call op with each index argument replaced by its documented bound when
\* above it: channel 8, operator 1, octave 7, note 11.
ClampedCall(op) ==
    [op EXCEPT !.args =
        IF op.name \in OperatorSetters
        THEN <<Clamp(@[1], CHANNEL_MAX), Clamp(@[2], ONE), @[3]>>
        ELSE IF op.name = "playNote"
        THEN <<Clamp(@[1], CHANNEL_MAX), Clamp(@[2], OCTAVE_MAX), Clamp(@[3], NOTE_MAX)>>
        ELSE IF op.name = "playDrum"
        THEN <<@[1], Clamp(@[2], OCTAVE_MAX), Clamp(@[3], NOTE_MAX)>>
        ELSE [@ EXCEPT ![1] = Clamp(@, CHANNEL_MAX)]]

\* The context the call op leaves when it runs in the context st.
Perform(st, op) ==
    LET a == op.args
    IN  CASE op.name = "setTremolo" -> setTremolo(st, a[1], a[2], a[3])
          [] op.name = "setVibrato" -> setVibrato(st, a[1], a[2], a[3])
          [] op.name = "setMaintainSustain" -> setMaintainSustain(st, a[1], a[2], a[3])
          [] op.name = "setEnvelopeScaling" -> setEnvelopeScaling(st, a[1], a[2], a[3])
          [] op.name = "setMultiplier" -> setMultiplier(st, a[1], a[2], a[3])
          [] op.name = "setScalingLevel" -> setScalingLevel(st, a[1], a[2], a[3])
          [] op.name = "setVolume" -> setVolume(st, a[1], a[2], a[3])
          [] op.name = "setAttack" -> setAttack(st, a[1], a[2], a[3])
          [] op.name = "setDecay" -> setDecay(st, a[1], a[2], a[3])
          [] op.name = "setSustain" -> setSustain(st, a[1], a[2], a[3])
          [] op.name = "setRelease" -> setRelease(st, a[1], a[2], a[3])
          [] op.name = "setWaveForm" -> setWaveForm(st, a[1], a[2], a[3])
          [] op.name = "setFNumber" -> setFNumber(st, a[1], a[2])
          [] op.name = "setBlock" -> setBlock(st, a[1], a[2])
          [] op.name = "setKeyOn" -> setKeyOn(st, a[1], a[2])
          [] op.name = "setFeedback" -> setFeedback(st, a[1], a[2])
          [] op.name = "setSynthMode" -> setSynthMode(st, a[1], a[2])
          [] op.name = "setInstrument" -> setInstrument(st, a[1], op.instr, a[2])
          [] op.name = "playNote" -> playNote(st, a[1], a[2], a[3])
          [] op.name = "playDrum" -> playDrum(st, a[1], a[2], a[3])
          [] op.name = "setFrequency" -> setFrequency(st, a[1], a[2], a[3])
          [] op.name = "getFrequencyFNumber"
               -> [st EXCEPT !.ret = getFrequencyFNumber(st, a[1], a[2], a[3])]

\* What the getters return for a channel and an operator.
Reads(st, c, op) ==
    <<getTremolo(st, c, op), getVibrato(st, c, op), getMaintainSustain(st, c, op),
      getEnvelopeScaling(st, c, op), getMultiplier(st, c, op), getScalingLevel(st, c, op),
      getVolume(st, c, op), getAttack(st, c, op), getDecay(st, c, op), getSustain(st, c, op),
      getRelease(st, c, op), getWaveForm(st, c, op), getFNumber(st, c), getBlock(st, c),
      getKeyOn(st, c), getFeedback(st, c), getSynthMode(st, c), getFrequencyStep(st, c),
      getRegisterOffset(c, op)>>

\* The register addresses that belong to channels 0..8.
ChannelRegisters ==
    OperatorRegisters \cup {base + c : base \in {\hA0, \hB0, \hC0}, c \in 0..CHANNEL_MAX}

\* The context st with every register outside keep zeroed.
Blanked(st, keep) ==
    [st EXCEPT !.regs = [a \in Address |-> IF a \in keep THEN @[a] ELSE \h00]]

\* The step had the effect of the call eq: its shadow state, its transmitted
\* writes and its return value.
ActsAs(eq) ==
    LET r == Perform(Cur, eq)
    IN  /\ oplRegisters' = r.regs
        /\ chip' = r.chip
        /\ bus' = r.bus
        /\ ret' = r.ret

\* The step, which ran the call op, transmitted to and changed registers of the
\* set own only, and what it did does not depend on any other register.
Confined(op, own) ==
    LET b == Perform(Blanked(Cur, own), op)
    IN  /\ \A i \in 1..Len(bus') : bus'[i].reg \in own
        /\ \A x \in Address \ own : oplRegisters'[x] = oplRegisters[x]
        /\ b.bus = bus'
        /\ b.ret = ret'

\* After the step the getters return, for the channel index of the call op and
\* every operator index, what they return for the indices clamped, and read
\* registers of channels 0..8 only.
ReadsClamped(op) ==
    LET c == op.args[1]
        blank == Blanked(After, ChannelRegisters)
    IN  \A o \in Operators :
            /\ Reads(After, c, o) = Reads(After, Clamp(c, CHANNEL_MAX), Clamp(o, ONE))
            /\ Reads(blank, c, o) = Reads(After, c, o)

\* C14 as claimed: every per-channel operation called with a channel index
\* above 8 has the shadow state, transmitted writes and return value of the
\* same call with channel 8, an operator index above 1 acts as 1, an octave
\* above 7 as 7 and a note above 11 as 11; and no such call reads or writes a
\* register outside the addresses belonging to channels 0..8.
C14_ClampedIndices ==
    [][/\ lastOp'.name \in PerChannelOps
            => /\ ActsAs(ClampedCall(lastOp'))
               /\ Confined(lastOp', ChannelRegisters)
               /\ ReadsClamped(lastOp')
       /\ lastOp'.name = "playDrum" => ActsAs(ClampedCall(lastOp'))]_vars

\* The chip-wide wave form select register, which setInstrument sets bit 5 of.
WaveFormSelectRegister == {\h01}

\* C14, amended: as claimed, except that setInstrument also reads and writes
\* the chip-wide wave form select register 0x01.
C14_ClampedIndicesButWaveFormSelect ==
    [][/\ lastOp'.name \in PerChannelOps
            => /\ ActsAs(ClampedCall(lastOp'))
               /\ Confined(lastOp',
                           IF lastOp'.name = "setInstrument"
                           THEN ChannelRegisters \cup WaveFormSelectRegister
                           ELSE ChannelRegisters)
               /\ ReadsClamped(lastOp')
       /\ lastOp'.name = "playDrum" => ActsAs(ClampedCall(lastOp'))]_vars

\* setVolume(255, 2, 63) has run as setVolume(8, 1, 63): one write, to register
\* 0x55 of channel 8's second operator.
C14_Witness ==
    /\ Ran("setVolume") /\ lastOp.args = <<255, 2, 63>>
    /\ bus = <<WriteEvent(\h55, \hFF)>>
    /\ ret = \h55

\* C15: for every channel c in 0..8 and every feedback value f in 0..7,
\* setFeedback(c, f) followed by getFeedback(c) returns f, whatever the
\* registers held, and setFeedback leaves the synth-mode bit (bit 0 of register
\* 0xC0 + c) unchanged.
C15_FeedbackRoundTrip ==
    [][(lastOp'.name = "setFeedback" /\ lastOp'.args[1] \in 0..CHANNEL_MAX
            /\ lastOp'.args[2] \in 0..7) =>
          LET reg == \hC0 + lastOp'.args[1]
          IN  /\ getFeedback(After, lastOp'.args[1]) = lastOp'.args[2]
              /\ BitAnd(oplRegisters'[reg], \h01) = BitAnd(oplRegisters[reg], \h01)]_vars

\* C16: in setDrumInstrument, for each operator slot op whose drum register
\* offset is not the 0xFF sentinel, the five register groups transmitted at that
\* offset are packed from the fields of instrument.operators[op], the output
\* level scaled by the volume; and the last write clears register 0xC0 + the
\* drum's channel.
C16_DrumOperatorFields ==
    Ran("setDrumInstrument") =>
        LET drum == lastOp.instr.type - INSTRUMENT_TYPE_BASS
            volume == max(VOLUME_MIN, min(Arg(1), VOLUME_MAX))
        IN  /\ \A op \in 0..1 :
                  LET registerOffset == drumRegisterOffsets[op][drum]
                      operator == lastOp.instr.operators[op]
                      bytes == operatorBytes(operator,
                                   scaledOutputLevel(operator.outputLevel, volume))
                      bases == <<\h20, \h40, \h60, \h80, \hE0>>
                  IN  registerOffset # \hFF =>
                          \A k \in 1..5 :
                              Transmitted(bus, bases[k] + registerOffset)
                                  = <<WriteEvent(bases[k] + registerOffset, bytes[k])>>
            /\ bus[Len(bus)] = WriteEvent(\hC0 + drumChannels[drum], \h00)

====
